---- MODULE Spec2Model ----
(***************************************************************************)
(* Model of app.py: the header commitment, the header bundle fetcher, the  *)
(* cross-check of two bundles and the control flow of main.                *)
(*                                                                         *)
(* Python values are modelled as follows.                                  *)
(*   int    a record [neg, mag]: sign and big-endian base-256 magnitude    *)
(*          without leading zeros, so values of 2^64 and above exist.      *)
(*   bytes  a sequence of numbers 0..255.                                  *)
(*   str    a sequence of one-character strings.                           *)
(* keccak is modelled as a collision-free digest of its preimage.          *)
(***************************************************************************)
EXTENDS Integers, Sequences, FiniteSets, TLC

\* ---------------------------------------------------------------- bounds
\* block heights a provider may report: 0..MaxHeight
MaxHeight == 1
\* distinguishing byte values used in the 32-byte words: 0..MaxByte
MaxByte == 1

\* ------------------------------------------------------ program constants
\* width of chainId, number and timestamp in the preimage
IntLen == 8
\* width of the five hash-like fields named by the docstring
WordLen == 32

\* ------------------------------------------------------------ Python int
RECURSIVE NatDigits(_)
NatDigits(n) == IF n = 0 THEN <<>> ELSE Append(NatDigits(n \div 256), n % 256)

PyInt(n) == [neg |-> n < 0, mag |-> NatDigits(IF n < 0 THEN 0 - n ELSE n)]

\* 2^64, the first value that does not fit 8 unsigned bytes
TwoTo64 == [neg |-> FALSE, mag |-> <<1>> \o [i \in 1..IntLen |-> 0]]

Zeros(k) == [i \in 1..k |-> 0]

\* int.to_bytes(length, "big"), unsigned: OverflowError for a negative value
\* and for a value that needs more than length bytes.
to_bytes(p, length) ==
    IF p.neg \/ Len(p.mag) > length
    THEN [ok |-> FALSE, bytes |-> <<>>]
    ELSE [ok |-> TRUE, bytes |-> Zeros(length - Len(p.mag)) \o p.mag]

\* ------------------------------------------------------------- hex, bytes
HexDigits == <<"0", "1", "2", "3", "4", "5", "6", "7",
               "8", "9", "a", "b", "c", "d", "e", "f">>

HexDigitSet == {HexDigits[i] : i \in 1..16}

HexValues == [c \in HexDigitSet |-> CHOOSE i \in 0..15 : HexDigits[i + 1] = c]

HexVal(c) == HexValues[c]

IsHexDigit(c) == c \in HexDigitSet

\* bytes.hex(): two lower-case digits per byte
BytesHex(b) ==
    [i \in 1..(2 * Len(b)) |->
        IF i % 2 = 1 THEN HexDigits[(b[(i + 1) \div 2] \div 16) + 1]
                     ELSE HexDigits[(b[i \div 2] % 16) + 1]]

\* HexBytes.hex(): the installed hexbytes release decides whether the text
\* carries the "0x" prefix (releases before 1.0) or not (1.0 and later).
HexBytes_hex(b, prefixed) ==
    (IF prefixed THEN <<"0", "x">> ELSE <<>>) \o BytesHex(b)

\* s[2:]
DropTwo(s) == SubSeq(s, 3, Len(s))

FromHexPairs(s) ==
    [i \in 1..(Len(s) \div 2) |-> 16 * HexVal(s[2 * i - 1]) + HexVal(s[2 * i])]

\* bytes.fromhex(s): ValueError on an odd number of digits or a non-digit.
bytes_fromhex(s) ==
    IF Len(s) % 2 = 0 /\ \A i \in 1..Len(s) : IsHexDigit(s[i])
    THEN [ok |-> TRUE, bytes |-> FromHexPairs(s)]
    ELSE [ok |-> FALSE, bytes |-> <<>>]

\* bytes.fromhex(field.hex()[2:])
FieldBytes(b, prefixed) == bytes_fromhex(DropTwo(HexBytes_hex(b, prefixed)))

\* Web3.keccak: a digest that identifies its preimage (no collisions).
Keccak(b) == [keccak256 |-> b]

\* ------------------------------------------------------ header_commitment
FieldNames == <<"hash", "parentHash", "stateRoot", "receiptsRoot", "transactionsRoot">>

header_commitment(chain_id, header, prefixed) ==
    LET c  == to_bytes(chain_id, IntLen)
        n  == to_bytes(header.number, IntLen)
        f1 == FieldBytes(header.hash, prefixed)
        f2 == FieldBytes(header.parentHash, prefixed)
        f3 == FieldBytes(header.stateRoot, prefixed)
        f4 == FieldBytes(header.receiptsRoot, prefixed)
        f5 == FieldBytes(header.transactionsRoot, prefixed)
        t  == to_bytes(header.timestamp, IntLen)
    IN  IF c.ok /\ n.ok /\ f1.ok /\ f2.ok /\ f3.ok /\ f4.ok /\ f5.ok /\ t.ok
        THEN LET fields == c.bytes \o n.bytes \o f1.bytes \o f2.bytes
                           \o f3.bytes \o f4.bytes \o f5.bytes \o t.bytes
             IN  [ok |-> TRUE,
                  fields |-> fields,
                  value |-> [text |-> <<"0", "x">>
                                      \o (IF prefixed THEN <<"0", "x">> ELSE <<>>),
                             digest |-> Keccak(fields)]]
        ELSE [ok |-> FALSE,
              fields |-> <<>>,
              value |-> [text |-> <<>>, digest |-> Keccak(<<>>)]]

\* ----------------------------------------------------------- network_name
NETWORKS == {
    [cid |-> PyInt(1),        name |-> "Ethereum Mainnet"],
    [cid |-> PyInt(11155111), name |-> "Sepolia Testnet"],
    [cid |-> PyInt(10),       name |-> "Optimism"],
    [cid |-> PyInt(137),      name |-> "Polygon"],
    [cid |-> PyInt(42161),    name |-> "Arbitrum One"] }

\* NETWORKS.get(cid, f"Unknown (chain ID {cid})"): the fallback text embeds cid.
network_name(cid) ==
    IF \E e \in NETWORKS : e.cid = cid
    THEN [label |-> (CHOOSE e \in NETWORKS : e.cid = cid).name, embeds |-> <<>>]
    ELSE [label |-> "Unknown (chain ID )", embeds |-> <<cid>>]

\* -------------------------------------------------------- parse_block_arg
UpperCase == <<"A", "B", "C", "D", "E", "F", "G", "H", "I", "J", "K", "L", "M",
               "N", "O", "P", "Q", "R", "S", "T", "U", "V", "W", "X", "Y", "Z">>
LowerCase == <<"a", "b", "c", "d", "e", "f", "g", "h", "i", "j", "k", "l", "m",
               "n", "o", "p", "q", "r", "s", "t", "u", "v", "w", "x", "y", "z">>

LowerChar(c) ==
    IF \E i \in 1..26 : UpperCase[i] = c
    THEN LowerCase[CHOOSE i \in 1..26 : UpperCase[i] = c]
    ELSE c

\* str.lower()
lower(s) == [i \in 1..Len(s) |-> LowerChar(s[i])]

Tags == { <<"l", "a", "t", "e", "s", "t">>,
          <<"f", "i", "n", "a", "l", "i", "z", "e", "d">>,
          <<"s", "a", "f", "e">>,
          <<"p", "e", "n", "d", "i", "n", "g">> }

IsDigitOf(c, base) == IsHexDigit(LowerChar(c)) /\ HexVal(LowerChar(c)) < base

RECURSIVE DigitsValue(_, _)
DigitsValue(s, base) ==
    IF s = <<>> THEN 0
    ELSE base * DigitsValue(SubSeq(s, 1, Len(s) - 1), base)
         + HexVal(LowerChar(s[Len(s)]))

\* int(s, 0) on text without blanks and underscores: an optional sign, then
\* 0x / 0o / 0b and digits of that base, or decimal digits (a leading zero
\* only when every digit is zero).  ValueError otherwise.
int_base0(s) ==
    LET signed == Len(s) >= 1 /\ s[1] \in {"+", "-"}
        body   == IF signed THEN Tail(s) ELSE s
        base   == IF Len(body) >= 2 /\ body[1] = "0"
                  THEN CASE LowerChar(body[2]) = "x" -> 16
                         [] LowerChar(body[2]) = "o" -> 8
                         [] LowerChar(body[2]) = "b" -> 2
                         [] OTHER -> 10
                  ELSE 10
        digits == IF base = 10 THEN body ELSE DropTwo(body)
        wellformed ==
            /\ Len(digits) >= 1
            /\ \A i \in 1..Len(digits) : IsDigitOf(digits[i], base)
            /\ base = 10 /\ digits[1] = "0" => \A i \in 1..Len(digits) : digits[i] = "0"
        v == DigitsValue(digits, base)
    IN  IF wellformed
        THEN [ok |-> TRUE,
              val |-> PyInt(IF signed /\ s[1] = "-" THEN 0 - v ELSE v)]
        ELSE [ok |-> FALSE, val |-> PyInt(0)]

TagId(t) == [kind |-> "tag", tag |-> t, val |-> PyInt(0)]
IntId(p) == [kind |-> "int", tag |-> <<>>, val |-> p]

\* isinstance(block_id, int)
IsInt(block_id) == block_id.kind = "int"

parse_block_arg(arg) ==
    IF lower(arg) \in Tags
    THEN [ok |-> TRUE, id |-> TagId(lower(arg))]
    ELSE LET r == int_base0(arg)
         IN  [ok |-> r.ok, id |-> IntId(r.val)]

\* ---------------------------------------------------- fetch_header_bundle
NoCommitment == [text |-> <<>>, digest |-> Keccak(<<>>)]

NoBundle == [chain_id |-> PyInt(0), network |-> network_name(PyInt(0)),
             number |-> PyInt(0), timestamp |-> PyInt(0),
             hash |-> <<>>, parentHash |-> <<>>, stateRoot |-> <<>>,
             receiptsRoot |-> <<>>, transactionsRoot |-> <<>>,
             commitment |-> NoCommitment]

\* header is the provider's answer to get_block; cid1 and cid2 are its answers
\* to the two reads of w3.eth.chain_id, in the order the code makes them.
fetch_header_bundle_rereads_chain_id(header, cid1, cid2, prefixed) ==
    LET c == header_commitment(cid2, header, prefixed)
    IN  [ok |-> c.ok,
         bundle |-> [chain_id |-> cid1, network |-> network_name(cid2),
                     number |-> header.number, timestamp |-> header.timestamp,
                     hash |-> HexBytes_hex(header.hash, prefixed),
                     parentHash |-> HexBytes_hex(header.parentHash, prefixed),
                     stateRoot |-> HexBytes_hex(header.stateRoot, prefixed),
                     receiptsRoot |-> HexBytes_hex(header.receiptsRoot, prefixed),
                     transactionsRoot |-> HexBytes_hex(header.transactionsRoot, prefixed),
                     commitment |-> c.value]]

fetch_header_bundle(header, cid1, cid2, prefixed) ==
    LET c == header_commitment(cid1, header, prefixed)
    IN  [ok |-> c.ok,
         bundle |-> [chain_id |-> cid1, network |-> network_name(cid2),
                     number |-> header.number, timestamp |-> header.timestamp,
                     hash |-> HexBytes_hex(header.hash, prefixed),
                     parentHash |-> HexBytes_hex(header.parentHash, prefixed),
                     stateRoot |-> HexBytes_hex(header.stateRoot, prefixed),
                     receiptsRoot |-> HexBytes_hex(header.receiptsRoot, prefixed),
                     transactionsRoot |-> HexBytes_hex(header.transactionsRoot, prefixed),
                     commitment |-> c.value]]

\* ----------------------------------------------------------------- compare
Flags(a, b) ==
    [same_chain    |-> a.chain_id = b.chain_id,
     same_num      |-> a.number = b.number,
     same_hash     |-> a.hash = b.hash,
     same_parent   |-> a.parentHash = b.parentHash,
     same_state    |-> a.stateRoot = b.stateRoot,
     same_receipts |-> a.receiptsRoot = b.receiptsRoot,
     same_txroot   |-> a.transactionsRoot = b.transactionsRoot,
     same_commit   |-> a.commitment = b.commitment]

FlagNames == {"same_chain", "same_num", "same_hash", "same_parent",
              "same_state", "same_receipts", "same_txroot", "same_commit"}

\* the eight printed lines and the verdict line
compare_ignores_commitment(a, b) ==
    LET f == Flags(a, b)
    IN  [printed |-> f,
         verdict |-> IF \A n \in FlagNames \ {"same_commit"} : f[n]
                     THEN "Soundness confirmed"
                     ELSE "Inconsistency detected"]

compare(a, b) ==
    LET f == Flags(a, b)
    IN  [printed |-> f,
         verdict |-> IF \A n \in FlagNames : f[n]
                     THEN "Soundness confirmed"
                     ELSE "Inconsistency detected"]

NoResult == [printed |-> [n \in FlagNames |-> FALSE], verdict |-> "none"]

\* ------------------------------------------------- inputs of the program
Str_latest == <<"L", "a", "t", "e", "s", "t">>

\* --block values tried: a tag in mixed case, the lowest and the highest
\* height in decimal, a negative number, and text that is neither.
BlockArgs ==
    {Str_latest, <<"-", "5">>, <<"a", "b", "c">>}
    \cup {<<HexDigits[h + 1]>> : h \in {0, MaxHeight}}

\* --rpc1 / --rpc2: "" stands for an empty or absent value (both are falsy).
Rpc1Args == {"", "rpcA"}
Rpc2Args == {"", "rpcB"}

\* a 32-byte word told apart by its first and last byte
Word(first, last) ==
    [i \in 1..WordLen |-> IF i = 1 THEN first
                          ELSE IF i = WordLen THEN last
                          ELSE (7 * i) % 256]

Roots == {Word(f, 0) : f \in 0..MaxByte} \cup {Word(0, MaxByte)}

Timestamps == {PyInt(1700000000), PyInt(1700000012)}

Header(h, t, r) ==
    [number |-> PyInt(h), timestamp |-> t,
     hash |-> Word(16 + h, h), parentHash |-> Word(32 + h, h),
     stateRoot |-> r, receiptsRoot |-> Word(48, 3),
     transactionsRoot |-> Word(64, 4)]

\* what a provider may answer to get_block: for each height the block of the
\* canonical chain, and the answers that depart from it in the timestamp or
\* in the state root alone
Headers ==
    {Header(h, PyInt(1700000000), Word(0, 0)) : h \in 0..MaxHeight}
    \cup {Header(h, t, Word(0, 0)) : h \in 0..MaxHeight, t \in Timestamps}
    \cup {Header(h, PyInt(1700000000), r) : h \in 0..MaxHeight, r \in Roots}

\* what a provider may answer to a read of chain_id: a known id, an unknown
\* one, and one that does not fit 8 bytes
ChainIds == {PyInt(1), PyInt(5), TwoTo64}

\* the answers to the two reads of chain_id made by one fetch: the same
\* answer twice, or a second answer that departs from the first
ChainIdReads == {<<c, c>> : c \in ChainIds} \cup {<<PyInt(1), PyInt(5)>>}

\* ------------------------------------------------------------------ state
VARIABLES
    pc,          \* position in main
    args,        \* parsed command line: [rpc1, rpc2, block]
    prefixed,    \* whether the installed HexBytes.hex() writes "0x"
    block_id,    \* result of parse_block_arg
    contacted,   \* urls handed to w3_connect, in order
    queries,     \* get_block calls answered: [url, ref, header]
    primary,     \* bundle of the primary provider
    secondary,   \* bundle of the secondary provider
    result,      \* what compare printed
    out,         \* headings and diagnostics printed, in order
    status,      \* process exit status (-1 while running)
    err,         \* what ended the run early, "none" otherwise
    cin,         \* header_commitment taken alone: its arguments
    cres         \* header_commitment taken alone: its outcome

vars == <<pc, args, prefixed, block_id, contacted, queries, primary, secondary,
          result, out, status, err, cin, cres>>

NoInput == [chain_id |-> PyInt(0),
            header |-> [number |-> PyInt(0), timestamp |-> PyInt(0),
                        hash |-> <<>>, parentHash |-> <<>>, stateRoot |-> <<>>,
                        receiptsRoot |-> <<>>, transactionsRoot |-> <<>>]]

NoOutcome == [called |-> FALSE, ok |-> FALSE, fields |-> <<>>, value |-> NoCommitment]

Init ==
    /\ pc = "start"
    /\ args \in [rpc1 : Rpc1Args, rpc2 : Rpc2Args, block : BlockArgs]
    /\ prefixed \in BOOLEAN
    /\ block_id = TagId(<<>>)
    /\ contacted = <<>>
    /\ queries = <<>>
    /\ primary = NoBundle
    /\ secondary = NoBundle
    /\ result = NoResult
    /\ out = <<>>
    /\ status = -1
    /\ err = "none"
    /\ cin = NoInput
    /\ cres = NoOutcome

\* sys.exit(1) after a diagnostic, or an exception nobody catches
Fail(kind, message) ==
    /\ pc' = "exit"
    /\ status' = 1
    /\ err' = kind
    /\ out' = Append(out, message)

\* ------------------------------------------------------------------- main
\* lines 117-120
MissingRpc1 ==
    /\ pc = "start"
    /\ args.rpc1 = ""
    /\ Fail("config", "Missing --rpc1")
    /\ UNCHANGED <<args, prefixed, block_id, contacted, queries, primary,
                   secondary, result, cin, cres>>

\* lines 122-126
ParseBlock ==
    /\ pc = "start"
    /\ args.rpc1 # ""
    /\ LET r == parse_block_arg(args.block)
       IN  IF r.ok
           THEN /\ block_id' = r.id
                /\ pc' = "connect1"
                /\ UNCHANGED <<status, err, out>>
           ELSE /\ Fail("InvalidReference", "Invalid --block value")
                /\ UNCHANGED block_id
    /\ UNCHANGED <<args, prefixed, contacted, queries, primary, secondary,
                   result, cin, cres>>

\* a variant that prints the diagnostic and goes on with the handle
w3_connect_without_exit(at, url, next) ==
    /\ pc = at
    /\ contacted' = Append(contacted, url)
    /\ pc' = next
    /\ \E up \in BOOLEAN :
         IF up
         THEN UNCHANGED <<status, err, out>>
         ELSE /\ err' = "ProviderUnavailable"
              /\ out' = Append(out, "RPC connection failed")
              /\ UNCHANGED status
    /\ UNCHANGED <<args, prefixed, block_id, queries, primary, secondary,
                   result, cin, cres>>

\* w3_connect: is_connected() answers yes or no
w3_connect(at, url, next) ==
    /\ pc = at
    /\ contacted' = Append(contacted, url)
    /\ \E up \in BOOLEAN :
         IF up
         THEN /\ pc' = next
              /\ UNCHANGED <<status, err, out>>
         ELSE Fail("ProviderUnavailable", "RPC connection failed")
    /\ UNCHANGED <<args, prefixed, block_id, queries, primary, secondary,
                   result, cin, cres>>

\* line 129
ConnectPrimary == w3_connect("connect1", args.rpc1, "fetch1")

\* line 134
ConnectSecondary == w3_connect("connect2", args.rpc2, "fetch2")

\* w3.eth.get_block refuses an integer below zero before any request is made
get_block_accepts(ref) == ~(IsInt(ref) /\ ref.val.neg)

\* get_block raises: the reference is refused, or the provider has no answer
FetchRaises(at, ref) ==
    /\ pc = at
    /\ Fail("FetchError", "Traceback")
    /\ UNCHANGED <<args, prefixed, block_id, contacted, queries, primary,
                   secondary, result, cin, cres>>

\* lines 130-133: fetch_header_bundle(w3a, block_id) and print_bundle; with no
\* secondary endpoint, the elapsed line (141) follows and main returns
FetchPrimary ==
    /\ pc = "fetch1"
    /\ get_block_accepts(block_id)
    /\ \E h \in Headers, cids \in ChainIdReads :
         LET b == fetch_header_bundle(h, cids[1], cids[2], prefixed)
         IN  /\ queries' = Append(queries, [url |-> args.rpc1, ref |-> block_id,
                                            header |-> h])
             /\ IF b.ok
                THEN /\ primary' = b.bundle
                     /\ IF args.rpc2 # ""
                        THEN /\ out' = Append(out, "PRIMARY")
                             /\ pc' = "connect2"
                             /\ UNCHANGED status
                        ELSE /\ out' = Append(Append(out, "PRIMARY"), "Elapsed")
                             /\ pc' = "exit"
                             /\ status' = 0
                     /\ UNCHANGED err
                ELSE /\ Fail("EncodingError", "Traceback")
                     /\ UNCHANGED primary
    /\ UNCHANGED <<args, prefixed, block_id, contacted, secondary, result, cin, cres>>

FetchPrimaryRaises == FetchRaises("fetch1", block_id)

\* line 136
b_id == IF IsInt(block_id) THEN IntId(primary.number) ELSE block_id

\* lines 136-141: fetch_header_bundle(w3b, b_id), print_bundle, compare, the
\* elapsed line, and main returns
FetchSecondary ==
    /\ pc = "fetch2"
    /\ get_block_accepts(b_id)
    /\ \E h \in Headers, cids \in ChainIdReads :
         LET b == fetch_header_bundle(h, cids[1], cids[2], prefixed)
         IN  /\ queries' = Append(queries, [url |-> args.rpc2, ref |-> b_id,
                                            header |-> h])
             /\ IF b.ok
                THEN /\ secondary' = b.bundle
                     /\ result' = compare(primary, b.bundle)
                     /\ out' = out \o <<"SECONDARY", "Cross-check", "Elapsed">>
                     /\ pc' = "exit"
                     /\ status' = 0
                     /\ UNCHANGED err
                ELSE /\ Fail("EncodingError", "Traceback")
                     /\ UNCHANGED <<secondary, result>>
    /\ UNCHANGED <<args, prefixed, block_id, contacted, primary, cin, cres>>

FetchSecondaryRaises == FetchRaises("fetch2", b_id)

Next ==
    \/ MissingRpc1
    \/ ParseBlock
    \/ ConnectPrimary
    \/ FetchPrimary
    \/ FetchPrimaryRaises
    \/ ConnectSecondary
    \/ FetchSecondary
    \/ FetchSecondaryRaises

Spec == Init /\ [][Next]_vars

\* ------------------------------------------- header_commitment taken alone
\* 2^64 - 1, the last value that fits 8 unsigned bytes
MaxU64 == [neg |-> FALSE, mag |-> [i \in 1..IntLen |-> 255]]

\* a field of any length, told apart by its first byte
Field(len, first) == [i \in 1..len |-> IF i = 1 THEN first ELSE (7 * i) % 256]

GoodHeader == Header(MaxHeight, PyInt(1700000000), Word(0, 0))

\* arguments tried: well-formed headers, headers with one field one byte
\* short or long, and integers at and beyond both ends of the 8-byte range
CommitHeaders ==
    {[GoodHeader EXCEPT !.stateRoot = r] : r \in Roots}
    \cup {[GoodHeader EXCEPT ![FieldNames[i]] = Field(len, b)] :
            i \in 1..5, len \in {WordLen - 1, WordLen + 1}, b \in 0..MaxByte}
    \cup {[GoodHeader EXCEPT !.number = n] : n \in {MaxU64, TwoTo64, PyInt(-1)}}
    \cup {[GoodHeader EXCEPT !.timestamp = t] : t \in {MaxU64, TwoTo64, PyInt(-1)}}

CommitChainIds == {PyInt(1), MaxU64, TwoTo64, PyInt(-1)}

InitCommit ==
    /\ pc = "commit"
    /\ cin \in [chain_id : CommitChainIds, header : CommitHeaders]
    /\ prefixed \in BOOLEAN
    /\ cres = NoOutcome
    /\ args = [rpc1 |-> "", rpc2 |-> "", block |-> <<>>]
    /\ block_id = TagId(<<>>)
    /\ contacted = <<>>
    /\ queries = <<>>
    /\ primary = NoBundle
    /\ secondary = NoBundle
    /\ result = NoResult
    /\ out = <<>>
    /\ status = -1
    /\ err = "none"

\* one call of header_commitment(chain_id, header)
CallHeaderCommitment ==
    /\ pc = "commit"
    /\ LET c == header_commitment(cin.chain_id, cin.header, prefixed)
       IN  cres' = [called |-> TRUE, ok |-> c.ok, fields |-> c.fields,
                    value |-> c.value]
    /\ pc' = "returned"
    /\ UNCHANGED <<args, prefixed, block_id, contacted, queries, primary,
                   secondary, result, out, status, err, cin>>

NextCommit == CallHeaderCommitment

SpecCommit == InitCommit /\ [][NextCommit]_vars

\* ================================================================= claims
Compared == result # NoResult

SevenRawFlags == {"same_chain", "same_num", "same_hash", "same_parent",
                  "same_state", "same_receipts", "same_txroot"}

\* C1: with a symbolic block reference and a secondary endpoint, the secondary
\* bundle is fetched at the primary bundle's resolved number, never at the
\* tag, so both bundles report the same number.
C1_SymbolicUsesPrimaryHeight ==
    (block_id.kind = "tag" /\ Len(queries) = 2) =>
        /\ queries[2].ref = IntId(primary.number)
        /\ secondary # NoBundle => secondary.number = primary.number

\* C2: compare prints each of the eight booleans as the equality of that field
\* of the two bundles, and its verdict is "Soundness confirmed" exactly when
\* all eight are true and "Inconsistency detected" otherwise.
C2_VerdictIsConjunction ==
    Compared =>
        /\ DOMAIN result.printed = FlagNames
        /\ result.printed.same_chain = (primary.chain_id = secondary.chain_id)
        /\ result.printed.same_num = (primary.number = secondary.number)
        /\ result.printed.same_hash = (primary.hash = secondary.hash)
        /\ result.printed.same_parent = (primary.parentHash = secondary.parentHash)
        /\ result.printed.same_state = (primary.stateRoot = secondary.stateRoot)
        /\ result.printed.same_receipts = (primary.receiptsRoot = secondary.receiptsRoot)
        /\ result.printed.same_txroot
             = (primary.transactionsRoot = secondary.transactionsRoot)
        /\ result.printed.same_commit = (primary.commitment = secondary.commitment)
        /\ result.verdict \in {"Soundness confirmed", "Inconsistency detected"}
        /\ result.verdict = "Soundness confirmed"
             <=> \A n \in FlagNames : result.printed[n]

\* C2 witness: a comparison in which the commitment is the only mismatch, and
\* the verdict is the inconsistency.
C2_Witness ==
    /\ Compared
    /\ \A n \in SevenRawFlags : result.printed[n]
    /\ ~result.printed.same_commit
    /\ result.verdict = "Inconsistency detected"

DifferOnlyInStateRoot(g, h) ==
    /\ g.stateRoot # h.stateRoot
    /\ [g EXCEPT !.stateRoot = h.stateRoot] = h

\* C3: for two bundles built from headers that differ only in stateRoot (same
\* chain id), compare reports stateRoot false, commitment false, the other six
\* booleans true and the inconsistency verdict.
C3_StateRootMismatchDetected ==
    ( /\ Compared
      /\ primary.chain_id = secondary.chain_id
      /\ DifferOnlyInStateRoot(queries[1].header, queries[2].header) ) =>
        /\ ~result.printed.same_state
        /\ ~result.printed.same_commit
        /\ \A n \in SevenRawFlags \ {"same_state"} : result.printed[n]
        /\ result.verdict = "Inconsistency detected"

\* C4: with a literal height H both providers are queried at H, and when both
\* answer with the same chain id and the same header the comparison is sound
\* with all eight booleans true.
C4_LiteralHeightQueriedOnBoth ==
    (IsInt(block_id) /\ Len(queries) = 2) =>
        /\ queries[1].ref = block_id
        /\ queries[2].ref = block_id
        /\ ( /\ Compared
             /\ primary.chain_id = secondary.chain_id
             /\ queries[1].header = queries[2].header ) =>
               /\ \A n \in FlagNames : result.printed[n]
               /\ result.verdict = "Soundness confirmed"

InRange8(p) == ~p.neg /\ Len(p.mag) <= IntLen

WellFormedInput ==
    /\ InRange8(cin.chain_id)
    /\ InRange8(cin.header.number)
    /\ InRange8(cin.header.timestamp)
    /\ \A i \in 1..5 : Len(cin.header[FieldNames[i]]) = WordLen

\* C5: for a header with five 32-byte fields and integers that fit 8 bytes,
\* the preimage hashed is exactly 184 bytes: chainId, number, the five fields
\* verbatim and in order, timestamp.
C5_PreimageIs184Bytes ==
    (cres.called /\ WellFormedInput) =>
        /\ cres.ok
        /\ Len(cres.fields) = 184
        /\ cres.fields = to_bytes(cin.chain_id, IntLen).bytes
                         \o to_bytes(cin.header.number, IntLen).bytes
                         \o cin.header.hash \o cin.header.parentHash
                         \o cin.header.stateRoot \o cin.header.receiptsRoot
                         \o cin.header.transactionsRoot
                         \o to_bytes(cin.header.timestamp, IntLen).bytes

\* C6: header_commitment fails, and returns no commitment, whenever one of the
\* five fields is not exactly 32 bytes or one of chainId, number, timestamp is
\* outside 0 .. 2^64-1.
C6_MalformedInputRejected ==
    (cres.called /\ ~WellFormedInput) => ~cres.ok

\* a block reference as the specification defines it: a non-negative integer
\* or one of the four tags
ValidReference(arg) ==
    \/ lower(arg) \in Tags
    \/ int_base0(arg).ok /\ ~int_base0(arg).val.neg

\* C7: a block reference that is neither a non-negative integer nor a tag ends
\* the program with status 1 before any provider is contacted; an accepted
\* one is a non-negative integer or the lower-cased tag.
C7_InvalidReferenceRejected ==
    (args.rpc1 # "" /\ pc # "start") =>
        IF ValidReference(args.block)
        THEN \/ block_id.kind = "tag" /\ block_id.tag = lower(args.block)
             \/ block_id.kind = "int" /\ ~block_id.val.neg
        ELSE pc = "exit" /\ status = 1 /\ contacted = <<>> /\ queries = <<>>

\* C8: the exit status is 0 exactly when no error occurred, whatever the
\* verdict: a reported mismatch ends with 0 like a confirmation, and a
\* connection, fetch or encoding failure or an invalid reference ends with a
\* non-zero status and no verdict.
C8_StatusIgnoresVerdict ==
    /\ pc = "exit" => status \in {0, 1} /\ (status = 0 <=> err = "none")
    /\ pc # "exit" => status = -1 /\ err = "none"
    /\ Compared => pc = "exit" /\ status = 0
    /\ err # "none" => ~Compared
    /\ (pc = "exit" /\ ~ValidReference(args.block)) => status = 1 /\ ~Compared
    /\ (pc = "exit" /\ status = 0) =>
          /\ Len(queries) = (IF args.rpc2 # "" THEN 2 ELSE 1)
          /\ Compared <=> args.rpc2 # ""

\* C8 witness: a run that reported a mismatch and ended with status 0.
C8_Witness ==
    /\ pc = "exit"
    /\ status = 0
    /\ result.verdict = "Inconsistency detected"

\* C9 as stated: whenever the seven raw-field booleans are all true, the
\* commitment boolean is true, different timestamps included.
C9_RawMatchImpliesCommitMatch ==
    (Compared /\ \A n \in SevenRawFlags : result.printed[n]) =>
        result.printed.same_commit

\* C9 as amended: whenever the seven raw-field booleans are all true and the
\* two bundles carry the same timestamp, the commitment boolean is true.
C9_RawAndTimestampMatchImpliesCommitMatch ==
    ( /\ Compared
      /\ \A n \in SevenRawFlags : result.printed[n]
      /\ primary.timestamp = secondary.timestamp ) =>
        result.printed.same_commit

\* C9 witness: seven raw fields and the timestamp agree, the commitments
\* agree, and one provider answered its two chain-id reads differently.
C9_Witness ==
    /\ Compared
    /\ \A n \in FlagNames : result.printed[n]
    /\ primary.timestamp = secondary.timestamp
    /\ primary.network # secondary.network

\* C10: every bundle's network label is the label of its own chain_id, and its
\* commitment is computed over that chain_id.
C10_BundleChainConsistent ==
    /\ primary # NoBundle =>
         /\ primary.network = network_name(primary.chain_id)
         /\ primary.commitment
              = header_commitment(primary.chain_id, queries[1].header, prefixed).value
    /\ secondary # NoBundle =>
         /\ secondary.network = network_name(secondary.chain_id)
         /\ secondary.commitment
              = header_commitment(secondary.chain_id, queries[2].header, prefixed).value

====
